---- MODULE Spec2Model ----
(***************************************************************************)
(* MindMate backend (src/backend/app.py): the POST /chat request handler,  *)
(* the keyword distress classifier, the safety payload and the Gemini     *)
(* generation client, as a state machine over the requests in flight.      *)
(*                                                                         *)
(* Text is a sequence of one-character strings, so that strip(), lower(),  *)
(* len() and the substring test `keyword in message` are computed on the  *)
(* characters.  JSON values are tagged records [t |-> tag, v |-> value].    *)
(***************************************************************************)
EXTENDS Naturals, Integers, Sequences, FiniteSets, TLC

(***************************************************************************)
(* Characters and the str methods the handler uses                        *)
(***************************************************************************)

\* The non-ASCII tail of the reply strings (an emoji), one non-blank sign.
HEART == "<heart>"

\* The characters str.strip() removes that occur in the modelled inputs.
Whitespace == {" ", "\t", "\n"}

\* str.lower() on the letters (every other character maps to itself).
ToLower ==
   ("A" :> "a") @@ ("B" :> "b") @@ ("C" :> "c") @@ ("D" :> "d") @@ ("E" :> "e") @@ ("F" :> "f") @@
   ("G" :> "g") @@ ("H" :> "h") @@ ("I" :> "i") @@ ("J" :> "j") @@ ("K" :> "k") @@ ("L" :> "l") @@
   ("M" :> "m") @@ ("N" :> "n") @@ ("O" :> "o") @@ ("P" :> "p") @@ ("Q" :> "q") @@ ("R" :> "r") @@
   ("S" :> "s") @@ ("T" :> "t") @@ ("U" :> "u") @@ ("V" :> "v") @@ ("W" :> "w") @@ ("X" :> "x") @@
   ("Y" :> "y") @@ ("Z" :> "z")

\* str.upper() on the letters, used to build letter-case variants of inputs.
ToUpper ==
   ("a" :> "A") @@ ("b" :> "B") @@ ("c" :> "C") @@ ("d" :> "D") @@ ("e" :> "E") @@ ("f" :> "F") @@
   ("g" :> "G") @@ ("h" :> "H") @@ ("i" :> "I") @@ ("j" :> "J") @@ ("k" :> "K") @@ ("l" :> "L") @@
   ("m" :> "M") @@ ("n" :> "N") @@ ("o" :> "O") @@ ("p" :> "P") @@ ("q" :> "Q") @@ ("r" :> "R") @@
   ("s" :> "S") @@ ("t" :> "T") @@ ("u" :> "U") @@ ("v" :> "V") @@ ("w" :> "W") @@ ("x" :> "X") @@
   ("y" :> "Y") @@ ("z" :> "Z")

UpperLetters == DOMAIN ToLower
LowerLetters == DOMAIN ToUpper

LowerChar(c) == IF c \in UpperLetters THEN ToLower[c] ELSE c

UpperChar(c) == IF c \in LowerLetters THEN ToUpper[c] ELSE c

\* message.lower(), character by character (SubSeq makes it a sequence).
lower(s) == SubSeq([i \in 1..Len(s) |-> LowerChar(s[i])], 1, Len(s))

\* message.upper()
upper(s) == SubSeq([i \in 1..Len(s) |-> UpperChar(s[i])], 1, Len(s))

\* Index of the first / last character that is not whitespace (0: none).
FirstNonBlank(s) ==
  IF \A i \in 1..Len(s) : s[i] \in Whitespace THEN 0
  ELSE CHOOSE i \in 1..Len(s) :
         s[i] \notin Whitespace /\ \A j \in 1..(i - 1) : s[j] \in Whitespace

LastNonBlank(s) ==
  IF \A i \in 1..Len(s) : s[i] \in Whitespace THEN 0
  ELSE CHOOSE i \in 1..Len(s) :
         s[i] \notin Whitespace /\ \A j \in (i + 1)..Len(s) : s[j] \in Whitespace

\* str.strip(): the text without its leading and trailing whitespace.
strip(s) ==
  IF FirstNonBlank(s) = 0 THEN << >>
  ELSE SubSeq(s, FirstNonBlank(s), LastNonBlank(s))

\* The str operator `k in s`: k occurs in s as a contiguous substring.
IsSubstring(k, s) ==
  \E i \in 0..(Len(s) - Len(k)) : \A j \in 1..Len(k) : s[i + j] = k[j]

\* c * n
Repeat(c, n) == [i \in 1..n |-> c]

(***************************************************************************)
(* Distress classifier                                                     *)
(***************************************************************************)

DISTRESS_KEYWORDS ==
  << <<"s", "u", "i", "c", "i", "d", "e">>,
     <<"s", "e", "l", "f", "-", "h", "a", "r", "m">>,
     <<"k", "i", "l", "l", " ", "m", "y", "s", "e", "l", "f">>,
     <<"e", "n", "d", " ", "i", "t", " ", "a", "l", "l">>,
     <<"n", "o", " ", "p", "o", "i", "n", "t">>,
     <<"h", "o", "p", "e", "l", "e", "s", "s">>,
     <<"w", "o", "r", "t", "h", "l", "e", "s", "s">>,
     <<"c", "a", "n", "'", "t", " ", "t", "a", "k", "e", " ", "i", "t">>,
     <<"n", "o", "b", "o", "d", "y", " ", "c", "a", "r", "e", "s">>,
     <<"a", "l", "o", "n", "e", " ", "f", "o", "r", "e", "v", "e", "r">>,
     <<"s", "c", "a", "r", "e", "d">>,
     <<"p", "a", "n", "i", "c">>,
     <<"t", "e", "r", "r", "i", "f", "i", "e", "d">>,
     <<"p", "a", "n", "i", "c", " ", "a", "t", "t", "a", "c", "k">>,
     <<"a", "n", "x", "i", "e", "t", "y", " ", "a", "t", "t", "a", "c", "k">>,
     <<"a", "b", "u", "s", "i", "v", "e">>,
     <<"a", "b", "u", "s", "e">>,
     <<"a", "s", "s", "a", "u", "l", "t">>,
     <<"h", "a", "r", "a", "s", "s", "e", "d">>,
     <<"b", "u", "l", "l", "i", "e", "d">>,
     <<"d", "r", "u", "g">>,
     <<"d", "r", "u", "g", "s">>,
     <<"a", "l", "c", "o", "h", "o", "l">>,
     <<"d", "r", "i", "n", "k", "i", "n", "g">>,
     <<"h", "i", "g", "h">>,
     <<"d", "r", "u", "n", "k">>,
     <<"d", "e", "p", "r", "e", "s", "s", "e", "d">>,
     <<"d", "e", "p", "r", "e", "s", "s", "i", "o", "n">>,
     <<"s", "u", "i", "c", "i", "d", "a", "l">>,
     <<"d", "i", "e">> >>

\* The loop of detect_distress from the i-th keyword of the list kws on:
\* return True at the first keyword found in the text, False after the last.
RECURSIVE KeywordLoop(_, _, _)
KeywordLoop(kws, message_lower, i) ==
  IF i > Len(kws) THEN FALSE
  ELSE IF IsSubstring(kws[i], message_lower) THEN TRUE
  ELSE KeywordLoop(kws, message_lower, i + 1)

\* detect_distress with the keyword list as a parameter.
DetectWith(kws, message) == KeywordLoop(kws, lower(message), 1)

\* Mutant: the loop returns False as soon as the first keyword is not found.
detect_distress_first_only(message) ==
  IsSubstring(DISTRESS_KEYWORDS[1], lower(message))

detect_distress(message) == DetectWith(DISTRESS_KEYWORDS, message)

(***************************************************************************)
(* Safety payload and generation client constants                          *)
(***************************************************************************)

SAFETY_MESSAGE ==
  "I'm concerned about what you're sharing. Please reach out to a trusted adult, school counselor, or a mental health professional. Your wellbeing truly matters. <heart>"

SAFETY_RESOURCES ==
  << "Talk to your college counseling center",
     "National Suicide Prevention Lifeline: 988 (US)",
     "Crisis Text Line: Text HOME to 741741",
     "International Association for Suicide Prevention: https://www.iasp.info/resources/Crisis_Centres/" >>

generate_safety_warning ==
  [warning |-> TRUE, message |-> SAFETY_MESSAGE, resources |-> SAFETY_RESOURCES]

\* The string call_gemini_api returns from its except branch.
FALLBACK_REPLY ==
  <<"I", "'", "m", " ", "h", "a", "v", "i", "n", "g", " ", "t", "r", "o", "u", "b", "l", "e", " ", "r", "e", "s", "p", "o", "n", "d", "i", "n", "g", " ", "r", "i", "g", "h", "t", " ", "n", "o", "w", ".", " ", "P", "l", "e", "a", "s", "e", " ", "t", "r", "y", " ", "a", "g", "a", "i", "n", " ", "i", "n", " ", "a", " ", "m", "o", "m", "e", "n", "t", ".", " ", HEART>>

\* The reply of the handler's own except branch (HTTP 500).
ERROR_REPLY ==
  <<"S", "o", "r", "r", "y", ",", " ", "I", " ", "e", "n", "c", "o", "u", "n", "t", "e", "r", "e", "d", " ", "a", "n", " ", "e", "r", "r", "o", "r", ".", " ", "P", "l", "e", "a", "s", "e", " ", "t", "r", "y", " ", "a", "g", "a", "i", "n", ".", " ", HEART>>

\* The prompt sent to the API: the persona preamble around the user message.
FullMessage(user_message) ==
  <<"SYSTEM_PROMPT", "\n", "\n", "User says: ">> \o user_message
    \o <<"\n", "\n", "Respond as MindMate:">>

(***************************************************************************)
(* JSON values and request bodies                                          *)
(***************************************************************************)

JNull == [t |-> "null", v |-> << >>]
JBool(b) == [t |-> "bool", v |-> b]
JNum(n) == [t |-> "num", v |-> n]
JStr(s) == [t |-> "str", v |-> s]
JList(l) == [t |-> "list", v |-> l]
\* An object is the sequence of its members, each a <<key, value>> pair.
JObj(members) == [t |-> "object", v |-> members]

\* `key in data` and data.get(key, default) on an object.
HasKey(d, key) == \E i \in 1..Len(d.v) : d.v[i][1] = key

Get(d, key, default) ==
  IF HasKey(d, key) THEN d.v[CHOOSE i \in 1..Len(d.v) : d.v[i][1] = key][2]
  ELSE default

\* A request whose Content-Type is not JSON (this includes a request with no
\* body at all), and one whose JSON body does not parse.
NoJsonBody == [t |-> "nojson", v |-> << >>]
MalformedBody == [t |-> "malformed", v |-> << >>]

MESSAGE == <<"m", "e", "s", "s", "a", "g", "e">>
ANONYMOUS == <<"a", "n", "o", "n", "y", "m", "o", "u", "s">>

MAX_MESSAGE_LENGTH == 5000

\* request.get_json().  A body that does not parse raises BadRequest.  For a
\* request that is not JSON at all the installed Flask decides: older
\* releases return None, newer ones raise (lenient tells which one runs).
get_json(body, lenient) ==
  CASE body.t = "malformed" -> [raised |-> TRUE, data |-> JNull]
    [] body.t = "nojson" -> [raised |-> ~lenient, data |-> JNull]
    [] OTHER -> [raised |-> FALSE, data |-> body]

\* Python truth value of a JSON value (`not data` is its negation).
Truthy(d) ==
  CASE d.t = "null" -> FALSE
    [] d.t = "bool" -> d.v
    [] d.t = "num" -> d.v # 0
    [] d.t \in {"str", "list"} -> Len(d.v) > 0
    [] d.t = "object" -> Len(d.v) > 0

\* `"message" in data` raises TypeError on a number or a boolean.
InRaises(d) == d.t \in {"num", "bool"}

\* `"message" in data` where it is defined: substring of a string, element
\* of a list, key of an object.
MessageIn(d) ==
  CASE d.t = "str" -> IsSubstring(MESSAGE, d.v)
    [] d.t = "list" -> \E i \in 1..Len(d.v) : d.v[i].t = "str" /\ d.v[i].v = MESSAGE
    [] d.t = "object" -> HasKey(d, "message")
    [] OTHER -> FALSE

\* data.get("userId", "anonymous")
GetUserId(d) == Get(d, "userId", JStr(ANONYMOUS))

\* Mutant: the message is validated and forwarded without strip().
Untrimmed(raw) == raw

\* data.get("message", "").strip() on a text value.
Trimmed(raw) == strip(raw)

\* Mutant: the limit excludes 5000 (>= for >).
TooLongAtLimit(user_message) == Len(user_message) >= MAX_MESSAGE_LENGTH

\* len(user_message) > 5000
TooLong(user_message) == Len(user_message) > MAX_MESSAGE_LENGTH

(***************************************************************************)
(* Responses                                                               *)
(***************************************************************************)

NoResponse == [status |-> 0, body |-> [none |-> TRUE]]

BadRequest(error) == [status |-> 400, body |-> [error |-> error, reply |-> JNull]]

InternalError ==
  [status |-> 500,
   body |-> [error |-> "Internal server error", reply |-> JStr(ERROR_REPLY)]]

MISSING_FIELD == "Missing 'message' field"
EMPTY_MESSAGE == "Message cannot be empty"
MESSAGE_TOO_LONG == "Message is too long (max 5000 characters)"

\* What the validation part of chat() (lines 143-167, with the except branch
\* of lines 196-201) makes of a request body: the request is accepted with
\* its trimmed message and user id, or answered at once.  step is the step of
\* the handler that ended it: 1 parse and field check, 2 trim and emptiness,
\* 3 length.
Accepted(user_message, user_id) ==
  [ok |-> TRUE, step |-> 3, user_message |-> user_message, user_id |-> user_id,
   response |-> NoResponse]

Answered(step, response) ==
  [ok |-> FALSE, step |-> step, user_message |-> << >>, user_id |-> JNull,
   response |-> response]

ValidateMessage(data) ==
  IF Get(data, "message", JStr(<< >>)).t # "str" THEN Answered(2, InternalError)
  ELSE LET um == Trimmed(Get(data, "message", JStr(<< >>)).v)
           uid == GetUserId(data)
       IN  IF Len(um) = 0 THEN Answered(2, BadRequest(EMPTY_MESSAGE))
           ELSE IF TooLong(um) THEN Answered(3, BadRequest(MESSAGE_TOO_LONG))
           ELSE Accepted(um, uid)

ValidateRequest(body, lenient) ==
  LET gj == get_json(body, lenient)
      data == gj.data
  IN  IF gj.raised THEN Answered(1, InternalError)
      ELSE IF ~Truthy(data) THEN Answered(1, BadRequest(MISSING_FIELD))
      ELSE IF InRaises(data) THEN Answered(1, InternalError)
      ELSE IF ~MessageIn(data) THEN Answered(1, BadRequest(MISSING_FIELD))
      ELSE IF data.t # "object" THEN Answered(1, InternalError)
      ELSE ValidateMessage(data)

\* Mutant: the distress body without the resources member.
DistressBodyNoResources(ai, safety_info, now, uid) ==
  [reply |-> JStr(ai), warning |-> safety_info.warning,
   safetyMessage |-> safety_info.message, timestamp |-> now, userId |-> uid]

\* The two 200 bodies of chat().
DistressBody(ai, safety_info, now, uid) ==
  [reply |-> JStr(ai), warning |-> safety_info.warning,
   safetyMessage |-> safety_info.message, resources |-> safety_info.resources,
   timestamp |-> now, userId |-> uid]

NormalBody(ai, now, uid) ==
  [reply |-> JStr(ai), warning |-> FALSE, timestamp |-> now, userId |-> uid]

\* Mutant: the except clause names the network error only, anything else
\* is raised to chat().
GeminiResultNarrowExcept(outcome) ==
  IF outcome.ok THEN [raised |-> FALSE, value |-> strip(outcome.text)]
  ELSE [raised |-> outcome.err # "NetworkError", value |-> FALLBACK_REPLY]

\* call_gemini_api's return value for what the API did with the one prompt:
\* the stripped text of the response, or the fallback from the except branch.
\* `except Exception` catches every failure, so nothing is raised to chat().
GeminiResult(outcome) ==
  IF outcome.ok THEN [raised |-> FALSE, value |-> strip(outcome.text)]
  ELSE [raised |-> FALSE, value |-> FALLBACK_REPLY]

(***************************************************************************)
(* Inputs                                                                  *)
(***************************************************************************)

\* Number of requests that can be in flight together.
NumRequests == 2

Requests == 1..NumRequests

\* What the external API does with a prompt: it answers with a text, or the
\* call fails.
GenOk(text) == [ok |-> TRUE, text |-> text, err |-> "none"]
GenFail(err) == [ok |-> FALSE, text |-> << >>, err |-> err]
NoOutcome == [ok |-> FALSE, text |-> << >>, err |-> "not called"]

REPLY_TEXT == <<"T", "h", "a", "t", " ", "s", "o", "u", "n", "d", "s", " ", "h", "a", "r", "d", ".">>

FailureKinds == {"NetworkError", "AuthError", "MalformedResponse"}

Outcomes ==
  { GenOk(REPLY_TEXT), GenOk(<<" ">> \o REPLY_TEXT \o <<"\n">>), GenOk(<< >>),
    GenOk(<<" ", "\n">>) } \cup { GenFail(e) : e \in FailureKinds }

\* The values of datetime.now().isoformat() a response can carry.
Times == {"2024-05-01T10:00:00.000001", "2024-05-01T10:00:00.000002"}

(***************************************************************************)
(* State                                                                   *)
(***************************************************************************)

VARIABLES
  json_lenient,       \* the installed Flask returns None for a non-JSON request
  pc,                 \* pc[r]: where request r is in the handler
  body,               \* body[r]: the request body
  user_message,       \* chat()'s local user_message
  user_id,            \* chat()'s local user_id
  distress_detected,  \* chat()'s local distress_detected
  ai_response,        \* chat()'s local ai_response
  response,           \* the jsonify(...) value chat() is about to return
  outcome,            \* what the external API did for request r
  prompts,            \* prompts[r]: the prompts sent to the API for r, in order
  trace,              \* trace[r]: the components chat() called for r, in order
  delivered,          \* delivered[r]: the responses the client of r received
  cl_message,         \* classifier harness: the text under test
  cl_results          \* classifier harness: results of the calls made so far

vars ==
  << json_lenient, pc, body, user_message, user_id, distress_detected,
     ai_response, response, outcome, prompts, trace, delivered,
     cl_message, cl_results >>

handler_vars ==
  << json_lenient, pc, body, user_message, user_id, distress_detected,
     ai_response, response, outcome, prompts, trace, delivered >>

Stages == <<"Idle", "Received", "Validated", "Classified", "Generating",
            "Generated", "Composed", "Sent">>

Rank(stage) == CHOOSE i \in 1..Len(Stages) : Stages[i] = stage

Called(fn, arg) == [fn |-> fn, arg |-> arg]

HandlerInit ==
  /\ json_lenient \in BOOLEAN
  /\ pc = [r \in Requests |-> "Idle"]
  /\ body = [r \in Requests |-> NoJsonBody]
  /\ user_message = [r \in Requests |-> << >>]
  /\ user_id = [r \in Requests |-> JNull]
  /\ distress_detected = [r \in Requests |-> FALSE]
  /\ ai_response = [r \in Requests |-> << >>]
  /\ response = [r \in Requests |-> NoResponse]
  /\ outcome = [r \in Requests |-> NoOutcome]
  /\ prompts = [r \in Requests |-> << >>]
  /\ trace = [r \in Requests |-> << >>]
  /\ delivered = [r \in Requests |-> << >>]

Init ==
  /\ HandlerInit
  /\ cl_message = << >>
  /\ cl_results = << >>

(***************************************************************************)
(* POST /chat, one action per step of chat()                               *)
(***************************************************************************)

\* A client posts body b; Flask dispatches it to chat().
Arrive(r, b) ==
  /\ pc[r] = "Idle"
  /\ pc' = [pc EXCEPT ![r] = "Received"]
  /\ body' = [body EXCEPT ![r] = b]
  /\ UNCHANGED << json_lenient, user_message, user_id, distress_detected,
                  ai_response, response, outcome, prompts, trace, delivered,
                  cl_message, cl_results >>

\* Mutant: user_id is a module-level variable, shared by the requests.
ValidateSharedUserId(r) ==
  /\ pc[r] = "Received"
  /\ LET v == ValidateRequest(body[r], json_lenient)
     IN  IF v.ok
         THEN /\ pc' = [pc EXCEPT ![r] = "Validated"]
              /\ user_message' = [user_message EXCEPT ![r] = v.user_message]
              /\ user_id' = [q \in Requests |-> v.user_id]
              /\ UNCHANGED delivered
         ELSE /\ pc' = [pc EXCEPT ![r] = "Sent"]
              /\ delivered' = [delivered EXCEPT ![r] = Append(@, v.response)]
              /\ UNCHANGED << user_message, user_id >>
  /\ UNCHANGED << json_lenient, body, distress_detected, ai_response, response,
                  outcome, prompts, trace, cl_message, cl_results >>

\* Lines 143-167: parse, field check, trim, emptiness and length checks.  A
\* request that fails one of them is answered at once.
Validate(r) ==
  /\ pc[r] = "Received"
  /\ LET v == ValidateRequest(body[r], json_lenient)
     IN  IF v.ok
         THEN /\ pc' = [pc EXCEPT ![r] = "Validated"]
              /\ user_message' = [user_message EXCEPT ![r] = v.user_message]
              /\ user_id' = [user_id EXCEPT ![r] = v.user_id]
              /\ UNCHANGED delivered
         ELSE /\ pc' = [pc EXCEPT ![r] = "Sent"]
              /\ delivered' = [delivered EXCEPT ![r] = Append(@, v.response)]
              /\ UNCHANGED << user_message, user_id >>
  /\ UNCHANGED << json_lenient, body, distress_detected, ai_response, response,
                  outcome, prompts, trace, cl_message, cl_results >>

\* Mutant: the safety payload is built as soon as distress is detected,
\* before the generation call.
ClassifyThenSafety(r) ==
  /\ pc[r] = "Validated"
  /\ pc' = [pc EXCEPT ![r] = "Classified"]
  /\ distress_detected' =
       [distress_detected EXCEPT ![r] = detect_distress(user_message[r])]
  /\ trace' = [trace EXCEPT ![r] =
       IF detect_distress(user_message[r])
       THEN @ \o << Called("detect_distress", user_message[r]),
                    Called("generate_safety_warning", << >>) >>
       ELSE Append(@, Called("detect_distress", user_message[r]))]
  /\ UNCHANGED << json_lenient, body, user_message, user_id, ai_response,
                  response, outcome, prompts, delivered, cl_message, cl_results >>

\* Line 170: distress_detected = detect_distress(user_message)
Classify(r) ==
  /\ pc[r] = "Validated"
  /\ pc' = [pc EXCEPT ![r] = "Classified"]
  /\ distress_detected' =
       [distress_detected EXCEPT ![r] = detect_distress(user_message[r])]
  /\ trace' = [trace EXCEPT ![r] = Append(@, Called("detect_distress", user_message[r]))]
  /\ UNCHANGED << json_lenient, body, user_message, user_id, ai_response,
                  response, outcome, prompts, delivered, cl_message, cl_results >>

\* Lines 174 / 187 and 109-117: chat() calls call_gemini_api(user_message),
\* which sends the one prompt and blocks on the API.
CallGemini(r) ==
  /\ pc[r] = "Classified"
  /\ pc' = [pc EXCEPT ![r] = "Generating"]
  /\ trace' = [trace EXCEPT ![r] = Append(@, Called("call_gemini_api", user_message[r]))]
  /\ prompts' = [prompts EXCEPT ![r] = Append(@, FullMessage(user_message[r]))]
  /\ UNCHANGED << json_lenient, body, user_message, user_id, distress_detected,
                  ai_response, response, outcome, delivered, cl_message,
                  cl_results >>

\* Mutant: after a failure the prompt is sent once more.
GeminiReturnRetry(r, o) ==
  /\ pc[r] = "Generating"
  /\ outcome' = [outcome EXCEPT ![r] = o]
  /\ IF ~o.ok /\ Len(prompts[r]) < 2
     THEN /\ prompts' = [prompts EXCEPT ![r] = Append(@, FullMessage(user_message[r]))]
          /\ UNCHANGED << pc, ai_response >>
     ELSE /\ pc' = [pc EXCEPT ![r] = "Generated"]
          /\ ai_response' = [ai_response EXCEPT ![r] = GeminiResult(o).value]
          /\ UNCHANGED prompts
  /\ UNCHANGED << json_lenient, body, user_message, user_id, distress_detected,
                  response, delivered, trace, cl_message, cl_results >>

\* Lines 117-123: the API call ends with outcome o and call_gemini_api
\* returns.  An exception that left call_gemini_api would end in chat()'s
\* except branch (lines 196-201).
GeminiReturn(r, o) ==
  /\ pc[r] = "Generating"
  /\ outcome' = [outcome EXCEPT ![r] = o]
  /\ LET res == GeminiResult(o)
     IN  IF res.raised
         THEN /\ pc' = [pc EXCEPT ![r] = "Sent"]
              /\ delivered' = [delivered EXCEPT ![r] = Append(@, InternalError)]
              /\ UNCHANGED ai_response
         ELSE /\ pc' = [pc EXCEPT ![r] = "Generated"]
              /\ ai_response' = [ai_response EXCEPT ![r] = res.value]
              /\ UNCHANGED delivered
  /\ UNCHANGED << json_lenient, body, user_message, user_id, distress_detected,
                  response, prompts, trace, cl_message, cl_results >>

\* Lines 175-184 / 189-194: the 200 body, with the safety payload when
\* distress was detected; now is datetime.now().isoformat().
Compose(r, now) ==
  /\ pc[r] = "Generated"
  /\ pc' = [pc EXCEPT ![r] = "Composed"]
  /\ IF distress_detected[r]
     THEN /\ trace' = [trace EXCEPT ![r] = Append(@, Called("generate_safety_warning", << >>))]
          /\ response' = [response EXCEPT ![r] =
               [status |-> 200,
                body |-> DistressBody(ai_response[r], generate_safety_warning,
                                      now, user_id[r])]]
     ELSE /\ UNCHANGED trace
          /\ response' = [response EXCEPT ![r] =
               [status |-> 200, body |-> NormalBody(ai_response[r], now, user_id[r])]]
  /\ UNCHANGED << json_lenient, body, user_message, user_id, distress_detected,
                  ai_response, outcome, prompts, delivered, cl_message,
                  cl_results >>

\* The return statement: Flask sends the response to the client.
Send(r) ==
  /\ pc[r] = "Composed"
  /\ pc' = [pc EXCEPT ![r] = "Sent"]
  /\ delivered' = [delivered EXCEPT ![r] = Append(@, response[r])]
  /\ UNCHANGED << json_lenient, body, user_message, user_id, distress_detected,
                  ai_response, response, outcome, prompts, trace, cl_message,
                  cl_results >>

(***************************************************************************)
(* Request bodies the clients post                                         *)
(***************************************************************************)

\* Longest run of blanks put before and after a message text.
MaxPad == 1

\* All sequences over S of length at most n.
SeqsUpTo(S, n) == UNION { [1..k -> S] : k \in 0..n }

Pads == SeqsUpTo({" ", "\n"}, MaxPad)

END_IT_ALL == <<"I", " ", "w", "a", "n", "t", " ", "t", "o", " ", "e", "n", "d", " ", "i", "t", " ", "a", "l", "l">>
SUNNY == <<"I", " ", "l", "o", "v", "e", " ", "s", "u", "n", "n", "y", " ", "d", "a", "y", "s">>
STRESSED == <<"I", "'", "m", " ", "f", "e", "e", "l", "i", "n", "g", " ", "s", "t", "r", "e", "s", "s", "e", "d", " ", "a", "b", "o", "u", "t", " ", "p", "l", "a", "c", "e", "m", "e", "n", "t", "s">>
HOPELESS_DIE == <<"I", " ", "f", "e", "e", "l", " ", "h", "o", "p", "e", "l", "e", "s", "s", " ", "a", "n", "d", " ", "w", "a", "n", "t", " ", "t", "o", " ", "d", "i", "e">>
MIXED_CASE == <<"H", "O", "P", "E", "l", "e", "s", "s">>
DIETARY == <<"D", "i", "e", "t", "a", "r", "y", " ", "a", "d", "v", "i", "c", "e", " ", "p", "l", "e", "a", "s", "e">>
SPLIT == <<"d", "i", " ", "e">>
DIE == <<"d", "i", "e">>
U1 == <<"u", "1">>

ShortTexts ==
  { END_IT_ALL, SUNNY, STRESSED, HOPELESS_DIE, MIXED_CASE, DIETARY, SPLIT,
    <<"a", "\t", "b">>, << >> }

\* Texts around the length limit, without and with a keyword, bare and
\* between blanks.
LongTexts ==
  { Repeat("a", MAX_MESSAGE_LENGTH),
    <<" ">> \o Repeat("a", MAX_MESSAGE_LENGTH) \o <<"\n">>,
    Repeat("a", MAX_MESSAGE_LENGTH + 1),
    <<"\n">> \o Repeat("a", MAX_MESSAGE_LENGTH - 3) \o DIE \o <<" ", " ">>,
    <<" ">> \o Repeat("a", MAX_MESSAGE_LENGTH - 2) \o DIE }

MessageTexts ==
  { p \o t \o q : p \in Pads, q \in Pads, t \in ShortTexts } \cup LongTexts

TextBody(text) == JObj(<< <<"message", JStr(text)>> >>)

TextBodyFrom(text, uid) ==
  JObj(<< <<"message", JStr(text)>>, <<"userId", JStr(uid)>> >>)

\* Bodies that are no object with a text message.
OtherBodies ==
  { NoJsonBody, MalformedBody, JNull, JBool(FALSE), JBool(TRUE), JNum(0), JNum(5),
    JStr(<< >>), JStr(MESSAGE), JStr(<<"a">> \o MESSAGE \o <<"s">>), JStr(STRESSED),
    JList(<< >>), JList(<<JStr(MESSAGE)>>), JList(<<JStr(U1)>>),
    JObj(<< >>), JObj(<< <<"userId", JStr(U1)>> >>),
    JObj(<< <<"message", JNull>> >>), JObj(<< <<"message", JNum(7)>> >>),
    JObj(<< <<"message", JList(<<JStr(STRESSED)>>)>>, <<"userId", JStr(U1)>> >>) }

Bodies ==
  { TextBody(t) : t \in MessageTexts }
    \cup { TextBodyFrom(t, U1) : t \in {END_IT_ALL, STRESSED, << >>} }
    \cup OtherBodies

\* The bodies and API outcomes of the runs with several requests in flight.
ConcurrentBodies ==
  { TextBodyFrom(END_IT_ALL, U1), TextBody(STRESSED),
    JObj(<< <<"userId", JStr(U1)>> >>), JObj(<< <<"message", JNull>> >>) }

ConcurrentOutcomes ==
  { GenOk(<<" ">> \o REPLY_TEXT \o <<"\n">>), GenFail("NetworkError") }

(***************************************************************************)
(* Specifications                                                          *)
(***************************************************************************)

\* Any number of the requests in flight, their steps interleaved.
Next ==
  \E r \in Requests :
    \/ \E b \in ConcurrentBodies : Arrive(r, b)
    \/ Validate(r)
    \/ Classify(r)
    \/ CallGemini(r)
    \/ \E o \in ConcurrentOutcomes : GeminiReturn(r, o)
    \/ \E now \in Times : Compose(r, now)
    \/ Send(r)

Spec == Init /\ [][Next]_vars

\* One request, over every body and every outcome of the API.
NextSolo ==
  \/ \E b \in Bodies : Arrive(1, b)
  \/ Validate(1)
  \/ Classify(1)
  \/ CallGemini(1)
  \/ \E o \in Outcomes : GeminiReturn(1, o)
  \/ \E now \in Times : Compose(1, now)
  \/ Send(1)

SpecSolo == Init /\ [][NextSolo]_vars

(***************************************************************************)
(* The classifier on its own: detect_distress applied to a text, repeatedly *)
(***************************************************************************)

\* Longest text put before and after a phrase, and the number of calls made.
MaxAffix == 1
MaxCalls == 2

Affixes == SeqsUpTo({"e", "H"}, MaxAffix)

KeywordSet == { DISTRESS_KEYWORDS[i] : i \in 1..Len(DISTRESS_KEYWORDS) }

\* Phrases without a keyword; some become one with a letter added.
PlainPhrases ==
  { << >>, <<"d", "i">>, <<"h", "i", "g">>, <<"D", "I">>, <<"s", "u", "i", "c", "i", "d">>,
    <<"d", " ", "i", "e">>, <<"p", "a", "n", "i", "k">>, SUNNY, STRESSED, SPLIT }

ClassifierInputs ==
  { p \o c \o q :
      p \in Affixes, q \in Affixes,
      c \in KeywordSet \cup { upper(k) : k \in KeywordSet } \cup PlainPhrases
              \cup { END_IT_ALL, HOPELESS_DIE, MIXED_CASE, DIETARY } }

InitClassify ==
  /\ HandlerInit
  /\ cl_message \in ClassifierInputs
  /\ cl_results = << >>

CallDetect ==
  /\ Len(cl_results) < MaxCalls
  /\ cl_results' = Append(cl_results, detect_distress(cl_message))
  /\ UNCHANGED << handler_vars, cl_message >>

NextClassify == CallDetect

SpecClassify == InitClassify /\ [][NextClassify]_vars

Reverse(q) == [i \in 1..Len(q) |-> q[Len(q) + 1 - i]]

\* Some keyword of the list occurs in the lower-cased text.
ContainsKeyword(text) ==
  LET low == lower(text) IN \E k \in KeywordSet : IsSubstring(k, low)

\* C7: detect_distress(message) is true exactly when some keyword of the list
\* occurs in the lower-cased message; it is false for the empty text; the
\* result is the same with the keyword list reversed, with the message in
\* upper or in lower case, and on every repeated call.
C7_DetectDistress ==
  \A i \in 1..Len(cl_results) :
    /\ cl_results[i] = ContainsKeyword(cl_message)
    /\ (cl_message = << >> => cl_results[i] = FALSE)
    /\ cl_results[i] = DetectWith(Reverse(DISTRESS_KEYWORDS), cl_message)
    /\ cl_results[i] = detect_distress(upper(cl_message))
    /\ cl_results[i] = detect_distress(lower(cl_message))
    /\ cl_results[i] = cl_results[1]

\* A mixed-case text with a keyword has been classified twice, as distress.
C7_Witness ==
  /\ Len(cl_results) >= 2
  /\ cl_results[2] = TRUE
  /\ cl_message # lower(cl_message)
  /\ cl_message # upper(cl_message)

(***************************************************************************)
(* Properties of POST /chat                                                *)
(***************************************************************************)

\* The one response request r received.
Reply(r) == delivered[r][1]

Status(r) == Reply(r).status

Fields(r) == DOMAIN Reply(r).body

\* The body is a JSON object whose message member is a text.
IsTextMessage(b) ==
  /\ b.t = "object"
  /\ HasKey(b, "message")
  /\ Get(b, "message", JNull).t = "str"

RawMessage(b) == Get(b, "message", JStr(<< >>)).v

\* The request passes validation: a text message, not empty after trimming
\* and of at most 5000 characters.
PassesValidation(b) ==
  /\ IsTextMessage(b)
  /\ Len(strip(RawMessage(b))) > 0
  /\ Len(strip(RawMessage(b))) <= MAX_MESSAGE_LENGTH

SafetyFields == {"safetyMessage", "resources"}

\* C1: a request that passes validation is answered 200 with warning = true
\* exactly when its trimmed message contains a distress keyword;
\* safetyMessage and resources are both present when warning is true and
\* both absent when it is false, and when present they are the constant
\* safety payload, whose resources list is not empty.
C1_WarningAndSafetyFields ==
  \A r \in Requests :
    (pc[r] = "Sent" /\ PassesValidation(body[r])) =>
      /\ Status(r) = 200
      /\ "warning" \in Fields(r)
      /\ Reply(r).body.warning = ContainsKeyword(strip(RawMessage(body[r])))
      /\ IF Reply(r).body.warning
         THEN /\ SafetyFields \subseteq Fields(r)
              /\ Reply(r).body.safetyMessage = SAFETY_MESSAGE
              /\ Reply(r).body.resources = SAFETY_RESOURCES
              /\ Len(Reply(r).body.resources) > 0
         ELSE SafetyFields \cap Fields(r) = {}

\* A padded, mixed-case distress message was answered with the warning.
C1_Witness ==
  /\ pc[1] = "Sent"
  /\ PassesValidation(body[1])
  /\ RawMessage(body[1]) # lower(strip(RawMessage(body[1])))
  /\ Status(1) = 200
  /\ Reply(1).body.warning = TRUE
  /\ "resources" \in Fields(1)

\* C2: for a request that passes validation, distress or not, a failed
\* generation call gives HTTP 200 with the fixed fallback reply.
C2_FallbackOnFailure ==
  \A r \in Requests :
    (pc[r] = "Sent" /\ PassesValidation(body[r]) /\ ~outcome[r].ok) =>
      /\ Status(r) = 200
      /\ Reply(r).body.reply = JStr(FALLBACK_REPLY)

\* A distress message whose generation call failed to authenticate.
C2_Witness ==
  /\ pc[1] = "Sent"
  /\ outcome[1].err = "AuthError"
  /\ distress_detected[1]
  /\ Status(1) = 200
  /\ Reply(1).body.reply = JStr(FALLBACK_REPLY)

\* C3: for a JSON object body, a missing message member gives 400 "Missing
\* 'message' field"; else a text message that is empty after trimming gives
\* 400 "Message cannot be empty"; else a trimmed message longer than 5000
\* gives 400 "Message is too long"; every 400 body holds exactly an error
\* text and reply = null.
C3_ValidationErrors ==
  \A r \in Requests :
    pc[r] = "Sent" =>
      /\ (body[r].t = "object" /\ ~HasKey(body[r], "message")) =>
           Reply(r) = BadRequest(MISSING_FIELD)
      /\ (IsTextMessage(body[r]) /\ Len(strip(RawMessage(body[r]))) = 0) =>
           Reply(r) = BadRequest(EMPTY_MESSAGE)
      /\ (IsTextMessage(body[r])
            /\ Len(strip(RawMessage(body[r]))) > MAX_MESSAGE_LENGTH) =>
           Reply(r) = BadRequest(MESSAGE_TOO_LONG)
      /\ Status(r) = 400 =>
           /\ Fields(r) = {"error", "reply"}
           /\ Reply(r).body.reply = JNull
           /\ Reply(r).body.error \in {MISSING_FIELD, EMPTY_MESSAGE, MESSAGE_TOO_LONG}

\* A message of blanks only was rejected as empty.
C3_Witness ==
  /\ pc[1] = "Sent"
  /\ IsTextMessage(body[1])
  /\ Len(RawMessage(body[1])) > 0
  /\ Reply(1) = BadRequest(EMPTY_MESSAGE)

\* C4: a 500 answer comes only from a failure in steps 4-8, that is after
\* the classifier was reached; a request that ends in steps 1-3 (before the
\* classifier is called), whatever its body, is answered 400 with reply null.
C4_NoServerErrorFromValidation ==
  \A r \in Requests :
    pc[r] = "Sent" =>
      /\ Status(r) = 500 => trace[r] # << >>
      /\ trace[r] = << >> => (Status(r) = 400 /\ Reply(r).body.reply = JNull)

\* C5: every 200 response carries a non-empty text reply.
C5_ReplyNonEmpty ==
  \A r \in Requests :
    (pc[r] = "Sent" /\ Status(r) = 200) =>
      /\ Reply(r).body.reply.t = "str"
      /\ Len(Reply(r).body.reply.v) > 0

\* The calls of call_gemini_api in the trace of r.
GeminiCalls(r) == SelectSeq(trace[r], LAMBDA c : c.fn = "call_gemini_api")

\* C6: a request that passes validation has call_gemini_api invoked exactly
\* once, with the trimmed message, whether distress was detected or not; one
\* prompt at most is ever sent to the API, also after a failure; the reply
\* of the 200 response is the value that invocation returned.
C6_GeneratedOnce ==
  \A r \in Requests :
    /\ Len(GeminiCalls(r)) <= 1
    /\ Len(prompts[r]) <= 1
    /\ (pc[r] = "Sent" /\ PassesValidation(body[r])) =>
         /\ GeminiCalls(r) = << Called("call_gemini_api", strip(RawMessage(body[r]))) >>
         /\ prompts[r] = << FullMessage(strip(RawMessage(body[r]))) >>
         /\ Status(r) = 200
         /\ Reply(r).body.reply = JStr(ai_response[r])
         /\ ai_response[r] =
              (IF outcome[r].ok THEN strip(outcome[r].text) ELSE FALLBACK_REPLY)

\* A padded distress message whose one generation call failed.
C6_Witness ==
  /\ pc[1] = "Sent"
  /\ distress_detected[1]
  /\ ~outcome[1].ok
  /\ Len(prompts[1]) = 1
  /\ RawMessage(body[1]) # strip(RawMessage(body[1]))

\* The components called for r so far, by name.
TraceNames(r) == [i \in 1..Len(trace[r]) |-> trace[r][i].fn]

CallOrder == <<"detect_distress", "call_gemini_api", "generate_safety_warning">>

\* C8: a request moves from one state to the next in the order Received,
\* Validated, Classified, Generated (through the blocking call), Composed,
\* Sent, or from Received straight to Sent when validation fails.  The
\* classifier is called only after validation succeeded, the generation
\* client only after the classifier, the safety builder only after the
\* generation call returned and only for detected distress; a request that
\* fails validation calls none of them; a request gets one response, once
\* it is Sent, and none before.
C8_StateOrder ==
  /\ [][\A r \in Requests :
          pc'[r] # pc[r] =>
            \/ Rank(pc'[r]) = Rank(pc[r]) + 1
            \/ pc[r] = "Received" /\ pc'[r] = "Sent"
                 /\ ~ValidateRequest(body[r], json_lenient).ok]_vars
  /\ [](\A r \in Requests :
          /\ TraceNames(r) = SubSeq(CallOrder, 1, Len(trace[r]))
          /\ Len(trace[r]) >= 1 =>
               (Rank(pc[r]) >= Rank("Classified")
                  /\ ValidateRequest(body[r], json_lenient).ok)
          /\ Len(trace[r]) >= 2 => Rank(pc[r]) >= Rank("Generating")
          /\ Len(trace[r]) >= 3 =>
               (Rank(pc[r]) >= Rank("Composed") /\ distress_detected[r]
                  /\ outcome[r] # NoOutcome)
          /\ (Rank(pc[r]) >= Rank("Composed") /\ distress_detected[r]) =>
               Len(trace[r]) = 3
          /\ (pc[r] = "Sent" /\ ~ValidateRequest(body[r], json_lenient).ok) =>
               (trace[r] = << >> /\ prompts[r] = << >>)
          /\ Len(delivered[r]) = (IF pc[r] = "Sent" THEN 1 ELSE 0))

\* A distress request went through every state and called all three.
C8_Witness ==
  /\ pc[1] = "Sent"
  /\ Len(trace[1]) = 3
  /\ Len(delivered[1]) = 1

\* C9: the limit applies to the trimmed message and includes 5000: a text
\* message whose trimmed length is between 1 and 5000 is answered 200, also
\* when its raw length is above 5000; longer ones, 5001 included, get 400.
C9_LengthLimit ==
  \A r \in Requests :
    (pc[r] = "Sent" /\ IsTextMessage(body[r])) =>
      /\ (Len(strip(RawMessage(body[r]))) \in 1..MAX_MESSAGE_LENGTH) => Status(r) = 200
      /\ Len(strip(RawMessage(body[r]))) > MAX_MESSAGE_LENGTH =>
           (Status(r) = 400 /\ Reply(r).body.error = MESSAGE_TOO_LONG)

\* A message of 5000 characters between blanks was accepted.
C9_Witness ==
  /\ pc[1] = "Sent"
  /\ IsTextMessage(body[1])
  /\ Len(RawMessage(body[1])) > MAX_MESSAGE_LENGTH
  /\ user_message[1] # RawMessage(body[1])
  /\ Len(user_message[1]) = MAX_MESSAGE_LENGTH
  /\ Status(1) = 200

\* C10: with any number of requests in flight and their steps interleaved,
\* the answer to each request is the one its own body and its own generation
\* outcome give: the status and body of a validation answer, or 200 with the
\* warning of its own message, the safety fields exactly with the warning,
\* its own generated reply, and the userId it supplied ("anonymous" when it
\* supplied none).
C10_RequestsIndependent ==
  \A r \in Requests :
    pc[r] = "Sent" =>
      LET v == ValidateRequest(body[r], json_lenient)
      IN  IF ~v.ok THEN Reply(r) = v.response
          ELSE /\ Status(r) = 200
               /\ Reply(r).body.warning = ContainsKeyword(strip(RawMessage(body[r])))
               /\ Fields(r) \cap SafetyFields =
                    (IF Reply(r).body.warning THEN SafetyFields ELSE {})
               /\ Reply(r).body.userId =
                    (IF HasKey(body[r], "userId") THEN Get(body[r], "userId", JNull)
                     ELSE JStr(ANONYMOUS))
               /\ Reply(r).body.reply =
                    JStr(IF outcome[r].ok THEN strip(outcome[r].text)
                         ELSE FALLBACK_REPLY)

\* Two requests that differ in user id, warning and generation outcome were
\* both answered.
C10_Witness ==
  /\ pc[1] = "Sent" /\ pc[2] = "Sent"
  /\ Status(1) = 200 /\ Status(2) = 200
  /\ Reply(1).body.userId = JStr(U1)
  /\ Reply(2).body.userId = JStr(ANONYMOUS)
  /\ Reply(1).body.warning /\ ~Reply(2).body.warning
  /\ outcome[1].ok /\ ~outcome[2].ok

====
